---- MODULE Spec2Model ----
(***************************************************************************)
(* Birthday reminder backend: the daily scan that turns stored birthdays   *)
(* into de-duplicated notification documents (services/birthdayService.js, *)
(* services/notificationService.js), the timer that drives it, and the     *)
(* REST handlers that share the notification and birthday collections.     *)
(*                                                                         *)
(* Time is counted in hours; instant 0 is local midnight (standard time)   *)
(* of the Epoch date.  A JavaScript Date is the integer number of hours    *)
(* since that instant; its local fields are read in the time zone of the   *)
(* process, which may observe daylight saving time.                        *)
(***************************************************************************)
EXTENDS Integers, Sequences, FiniteSets

\* ------------------------------------------------------------------ bounds

\* Number of local days the clock may run past the Epoch while requests,
\* storage failures and direct calls interleave with the timers: the timeout
\* and the first tick of the interval.  The later ticks of the interval are
\* followed over YearlyDays days, up to YearlyHorizon.
HorizonDays == 2
\* Number of checkUpcomingBirthdays invocations that may be in flight at once.
MaxActive == 2
\* Number of storage calls of the scan that may fail.
MaxFailures == 1
\* Number of REST requests served.
MaxRequests == 2
\* Number of direct calls of checkUpcomingBirthdays.
MaxCalls == 2
\* Number of days after the Epoch on which the occurrence calculator is tried.
CalcDays == 1460
\* Number of local days the clock runs past the Epoch while the timers are
\* followed through the alerts of one anniversary.
YearlyDays == 9
\* Number of Birthday documents POST /api/birthdays may add.
MaxCreated == 1

\* ------------------------------------------------------- program constants

\* eightAM.setHours(8, 0, 0, 0)
TriggerHour == 8
\* setInterval(checkUpcomingBirthdays, 24 * 60 * 60 * 1000), in hours
PeriodHours == 24
\* Date.now() - 48 * 60 * 60 * 1000, in hours
LookbackHours == 48
\* (1000 * 60 * 60 * 24) milliseconds, in hours
HoursPerDay == 24
\* [0, 1, 3, 7].includes(daysUntil)
AlertWindows == {0, 1, 3, 7}

\* The local calendar date of instant 0 (month is 0-based, as in JavaScript).
Epoch == [year |-> 2024, month |-> 2, date |-> 10]

Horizon == HorizonDays * HoursPerDay

\* Largest amount of time (hours) one clock step lets pass.
Step == HoursPerDay

Min(a, b) == IF a <= b THEN a ELSE b

\* ----------------------------------------------------------------- calendar

IsLeap(y) == (y % 4 = 0 /\ y % 100 # 0) \/ y % 400 = 0

DaysInYear(y) == IF IsLeap(y) THEN 366 ELSE 365

DaysInMonth(y, m) ==
    IF m = 1 THEN (IF IsLeap(y) THEN 29 ELSE 28)
    ELSE IF m \in {3, 5, 8, 10} THEN 30 ELSE 31

RECURSIVE DaysBeforeMonth(_, _)
DaysBeforeMonth(y, m) ==
    IF m = 0 THEN 0 ELSE DaysBeforeMonth(y, m - 1) + DaysInMonth(y, m - 1)

\* Days from 1 January of the Epoch year to 1 January of year y >= Epoch.year.
RECURSIVE DaysBeforeYear(_)
DaysBeforeYear(y) ==
    IF y <= Epoch.year THEN 0 ELSE DaysBeforeYear(y - 1) + DaysInYear(y - 1)

\* Day number, counted from 1 January of the Epoch year, of year y, month m,
\* day-of-month d.  A day-of-month past the end of the month runs on into the
\* next month, as the Date constructor normalises it.
DayNumber(y, m, d) ==
    [yy \in Int, mm \in Int |-> DaysBeforeYear(yy) + DaysBeforeMonth(yy, mm)][y, m] + (d - 1)

EpochDay == DayNumber(Epoch.year, Epoch.month, Epoch.date)

\* The last calendar year an instant of the model may fall in.
LastYear == Epoch.year + (CalcDays \div 365) + 2

\* The time zones the process may run in (TZ): one without daylight saving
\* time and one that observes it by the rule of the United States.
Zones == {"UTC", "America/New_York"}

VARIABLE zone   \* the time zone of the process

\* Day of the week (0 is Sunday) of day number n: 1 January of the Epoch year,
\* 2024, is a Monday.
GetDay(n) == (n + 1) % 7

\* Day number of the k-th Sunday of month m of year y.
NthSunday(y, m, k) ==
    LET first == DayNumber(y, m, 1)
    IN  first + ((7 - GetDay(first)) % 7) + 7 * (k - 1)

\* The instant daylight saving time begins in year y: 02:00 standard time of
\* the second Sunday of March.
DstBegins(y) == (NthSunday(y, 2, 2) - EpochDay) * HoursPerDay + 2

\* The instant daylight saving time ends in year y: 02:00 daylight time, which
\* is 01:00 standard time, of the first Sunday of November.
DstEnds(y) == (NthSunday(y, 10, 1) - EpochDay) * HoursPerDay + 1

\* The spans of daylight saving time of the years of the model, each from the
\* instant it begins to the instant it ends.
DstSpans == {<<DstBegins(y), DstEnds(y)>> : y \in Epoch.year .. LastYear}

\* Hours by which the local clock is ahead of standard time at instant t.
DstOffset(t) ==
    IF zone # "UTC" /\ \E x \in {t} : \E span \in DstSpans : span[1] <= x /\ x < span[2]
    THEN 1 ELSE 0

\* What the local clock reads at instant t, in hours since it read midnight of
\* the Epoch date.
LocalTime(t) == t + DstOffset(t)

\* The instant at which the local clock reads l.  A reading the clock skips
\* when daylight saving time begins is taken an hour on; of the two instants
\* with the same reading when it ends, the earlier is taken.
FromLocal(l) ==
    IF zone # "UTC" /\ \E x \in {l} : \E span \in DstSpans :
                          span[1] + 1 <= x /\ x < span[2] + 1
    THEN l - 1 ELSE l

\* new Date(y, m, d): local midnight of that day.
MakeDate(y, m, d) == FromLocal((DayNumber(y, m, d) - EpochDay) * HoursPerDay)

\* Date.prototype.getFullYear / getMonth / getDate of instant t.
\* (Each is a function of the number of the local day, so that the day is
\* worked out once.)
YearOfDay ==
    [n \in Int |-> CHOOSE y \in Epoch.year .. LastYear :
                      DaysBeforeYear(y) <= n /\ n < DaysBeforeYear(y + 1)]

MonthOfDay ==
    [n \in Int |->
        [y \in Int |->
            CHOOSE m \in 0 .. 11 :
                /\ DaysBeforeMonth(y, m) <= n - DaysBeforeYear(y)
                /\ n - DaysBeforeYear(y) < DaysBeforeMonth(y, m) + DaysInMonth(y, m)
        ][YearOfDay[n]]]

DateOfDay ==
    [n \in Int |-> n - DayNumber(YearOfDay[n], MonthOfDay[n], 1) + 1]

GetFullYear(t) == YearOfDay[(LocalTime(t) \div HoursPerDay) + EpochDay]

GetMonth(t) == MonthOfDay[(LocalTime(t) \div HoursPerDay) + EpochDay]

GetDate(t) == DateOfDay[(LocalTime(t) \div HoursPerDay) + EpochDay]

GetHours(t) == LocalTime(t) % HoursPerDay

\* d.setHours(h, 0, 0, 0): the same local day at hour h.
SetHours(t, h) == FromLocal((LocalTime(t) \div HoursPerDay) * HoursPerDay + h)

\* d.setDate(d.getDate() + k): k local days later, same time of day.
AddDate(t, k) == FromLocal(LocalTime(t) + k * HoursPerDay)

\* d.setFullYear(y): same month, day-of-month and time of day in year y.
SetFullYear(t, y) ==
    FromLocal((DayNumber(y, GetMonth(t), GetDate(t)) - EpochDay) * HoursPerDay + GetHours(t))

\* Math.ceil(a / b) for b > 0.
CeilDiv(a, b) == (a + (b - 1)) \div b

\* Number.prototype.toString() of a non-negative integer.
Digit(n) == <<"0", "1", "2", "3", "4", "5", "6", "7", "8", "9">>[n + 1]

RECURSIVE NumberToString(_)
NumberToString(n) ==
    IF n < 10 THEN Digit(n) ELSE NumberToString(n \div 10) \o Digit(n % 10)

\* ------------------------------------------------------------- collections

\* The accounts, in the order User.find() returns them.
UserOrder == <<"u1", "u2">>
Users == {UserOrder[k] : k \in 1 .. Len(UserOrder)}

\* The ids of the Birthday documents stored when the process starts, in
\* collection order.
BirthdayOrder == <<"b1", "b2", "b3">>
BirthdayIds == {BirthdayOrder[k] : k \in 1 .. Len(BirthdayOrder)}

\* The _id of the k-th Birthday document ever stored.
BirthdayId(k) == "b" \o NumberToString(k)

\* Every _id the Birthday collection may come to hold, in insertion order.
CollectionOrder == [k \in 1 .. (Len(BirthdayOrder) + MaxCreated) |-> BirthdayId(k)]

\* The month and day-of-month that getMonth() and getDate() read from a
\* Birthday document's date.
MonthDay(m, d) == [month |-> m, date |-> d]

\* What a Birthday document without a date field, or a request body without a
\* date, holds for it: undefined.
NoDate == MonthDay(-1, -1)

\* A Birthday document whose date field holds null.
NullDate == MonthDay(-2, -2)

\* The Birthday documents the REST layer has stored when the process starts:
\* b2 was created with allowNotifications = 'false'.
InitialBirthdays ==
    [b \in BirthdayIds |->
        IF b = "b1" THEN [_id |-> "b1", user |-> "u1", name |-> "Ann",
                          date |-> MonthDay(2, 17), allowNotifications |-> TRUE]
        ELSE IF b = "b2" THEN [_id |-> "b2", user |-> "u1", name |-> "Bob",
                          date |-> MonthDay(2, 11), allowNotifications |-> FALSE]
        ELSE [_id |-> "b3", user |-> "u2", name |-> "Cy",
                          date |-> MonthDay(2, 13), allowNotifications |-> TRUE]]

\* The dates a PUT /api/birthdays/:id request may carry.
EditDates == {MonthDay(2, 18)}

\* The local hours of the Epoch day at which the process may start.
StartInstants == {6, 8, 10}

VARIABLES
    now,        \* the clock: Date.now(), in hours since instant 0
    db,         \* state of the mongoose connection made by Server.js
    sched,      \* the scheduler: "none", "waiting" (timeout armed), "running" (interval armed)
    timerDue,   \* the instant the armed timer fires next
    schedNow,   \* the `now` scheduleBirthdayChecks read, while its timeout is armed (else -1)
    cycles,     \* the invocations of checkUpcomingBirthdays in flight
    birthdays,  \* the Birthday collection
    store,      \* the Notification collection
    nextId,     \* the next Notification _id
    emitted,    \* history: every notification insert the scan performed
    last,       \* history: how the most recently ended invocation ended
    lastOk,     \* history: `today` of the last invocation that ran to completion (-1: none)
    started,    \* history: number of invocations started
    overlapped, \* history: some invocation started while another was in flight
    failures,   \* number of storage calls that failed
    escaped,    \* number of errors that left checkUpcomingBirthdays uncaught
    procUp,     \* the Node process is alive
    requests,   \* number of REST requests served
    timers,     \* number of timers of scheduleBirthdayChecks that are armed
    reading,    \* the PATCH /:id/read handlers suspended in notification.save()
    created     \* number of Birthday documents POST /api/birthdays has added
                \* (zone, the time zone of the process, is declared with the calendar)

vars == <<now, db, sched, timerDue, schedNow, cycles, birthdays, store, nextId,
          emitted, last, lastOk, started, overlapped, failures, escaped, procUp,
          requests, timers, reading, created, zone>>

\* No document being saved.
NoDoc ==
    [_id |-> "", userId |-> "", message |-> "", type |-> "", isRead |-> FALSE,
     birthdayId |-> "", metadata |-> [daysUntil |-> ""], createdAt |-> 0]

\* An invocation that has not run yet.
NewCycle ==
    [pc |-> "new", today |-> 0, start |-> 0, work |-> <<>>, i |-> 0,
     cutoff |-> 0, doc |-> NoDoc, inserted |-> 0, hits |-> 0, prevOk |-> -1]

NoLast == [today |-> -1, ok |-> FALSE, stage |-> "", inserted |-> 0, hits |-> 0,
           prevOk |-> -1, reached |-> 0, size |-> 0]

Init ==
    /\ zone = "UTC"
    /\ now \in StartInstants
    /\ db = "connecting"
    /\ sched = "none"
    /\ timerDue = 0
    /\ schedNow = -1
    /\ cycles = {}
    /\ birthdays = InitialBirthdays
    /\ store = {}
    /\ nextId = 1
    /\ emitted = {}
    /\ last = NoLast
    /\ lastOk = -1
    /\ started = 0
    /\ overlapped = FALSE
    /\ failures = 0
    /\ escaped = 0
    /\ procUp = TRUE
    /\ requests = 0
    /\ timers = 0
    /\ reading = {}
    /\ created = 0

\* ------------------------------------------------------ notification service

\* Variant: the first test is `daysUntil <= 1`, so today reads as tomorrow.
ReminderMessageNoToday(name, daysUntil) ==
    IF daysUntil <= 1 THEN "Tomorrow is " \o name \o "'s birthday"
    ELSE name \o "'s birthday is in " \o NumberToString(daysUntil) \o " days"

\* createBirthdayReminder's message for a birthday name and a day count (the
\* leading emoji of each message is left out).
ReminderMessage(name, daysUntil) ==
    IF daysUntil = 0 THEN "Today is " \o name \o "'s birthday!"
    ELSE IF daysUntil = 1 THEN "Tomorrow is " \o name \o "'s birthday"
    ELSE name \o "'s birthday is in " \o NumberToString(daysUntil) \o " days"

\* createNotification: the document `new Notification({...})` builds, with the
\* schema's default isRead = false and the createdAt that save() stamps at
\* instant t.  Its _id is empty until the insert assigns one.
NewNotification(userId, message, type, metadata, birthdayId, t) ==
    [_id |-> "", userId |-> userId, message |-> message, type |-> type,
     isRead |-> FALSE, birthdayId |-> birthdayId, metadata |-> metadata,
     createdAt |-> t]

\* The _id the collection gives its k-th document.
NotificationId(k) == "n" \o NumberToString(k)

\* createBirthdayReminder(userId, birthday, daysUntil), called at instant t.
BirthdayReminder(userId, birthday, daysUntil, t) ==
    NewNotification(userId, ReminderMessage(birthday.name, daysUntil), "birthday",
                    [daysUntil |-> NumberToString(daysUntil)], birthday._id, t)

\* --------------------------------------------------------- birthday service

\* Variant: today.setHours(0, 0, 0, 0) is left out.
TodayWithTimeOfDay(t) == t

\* today.setHours(0, 0, 0, 0) of `new Date()` at instant t.
Today(t) == SetHours(t, 0)

\* Variant: the occurrence is never moved to next year.
NextBirthdayThisYear(date, today) ==
    MakeDate(GetFullYear(today), date.month, date.date)

\* nextBirthday: this year's occurrence, moved to next year when it is before today.
NextBirthday(date, today) ==
    LET thisYear == MakeDate(GetFullYear(today), date.month, date.date)
    IN  IF thisYear < today
        THEN SetFullYear(thisYear, GetFullYear(today) + 1)
        ELSE thisYear

\* The value of a computation on an Invalid Date: it is no number, is equal to
\* none and is in no array that [..].includes() searches.
NaN == -1

\* birthDate = new Date(birthday.date), as getMonth() and getDate() read it.
\* new Date(null) is 1 January 1970 00:00 UTC, which west of Greenwich is
\* still 31 December.
BirthDate(date) ==
    IF date = NullDate
    THEN (IF zone = "UTC" THEN MonthDay(0, 1) ELSE MonthDay(11, 31))
    ELSE date

\* Variant: the day count includes today.
DaysUntilCountingToday(date, today) ==
    IF date = NoDate THEN NaN
    ELSE CeilDiv(NextBirthday(BirthDate(date), today) - today, HoursPerDay) + 1

\* daysUntil = Math.ceil((nextBirthday - today) / (1000 * 60 * 60 * 24)), the
\* difference being the time elapsed between the two local midnights.  For a
\* document without a date, new Date(undefined) is an Invalid Date, every
\* field read from it is NaN and so is the result; nothing throws.
DaysUntil(date, today) ==
    IF date = NoDate THEN NaN
    ELSE CeilDiv(NextBirthday(BirthDate(date), today) - today, HoursPerDay)

\* Variant: every day count up to the largest window alerts.
InWindowUpToSeven(daysUntil) == daysUntil <= 7

\* Variant: the array of alert windows has no 0.
InWindowWithoutToday(daysUntil) == daysUntil \in {1, 3, 7}

\* [0, 1, 3, 7].includes(daysUntil)
InWindow(daysUntil) == daysUntil \in AlertWindows

\* The ids of the documents of collection bdays that account u owns, in
\* insertion order.
OwnedIds(bdays, u) ==
    SelectSeq(CollectionOrder, LAMBDA b : b \in DOMAIN bdays /\ bdays[b].user = u)

\* User.find().populate('birthdays'): every account, each with the Birthday
\* documents it owns, in collection order.
PopulatedUsers(bdays) ==
    [k \in 1 .. Len(UserOrder) |->
        [_id |-> UserOrder[k],
         birthdays |-> [j \in 1 .. Len(OwnedIds(bdays, UserOrder[k])) |->
                           bdays[OwnedIds(bdays, UserOrder[k])[j]]]]]

\* Variant: an account with a birthday whose allowNotifications is false is
\* left out of the pass altogether.
RECURSIVE LoopOrderEnabledAccounts(_)
LoopOrderEnabledAccounts(users) ==
    IF users = <<>> THEN <<>>
    ELSE (IF \E j \in 1 .. Len(Head(users).birthdays) :
                ~Head(users).birthdays[j].allowNotifications
          THEN <<>>
          ELSE [j \in 1 .. Len(Head(users).birthdays) |->
                   [user |-> Head(users)._id, birthday |-> Head(users).birthdays[j]]])
         \o LoopOrderEnabledAccounts(Tail(users))

\* The (user, birthday) pairs in the order the two nested for-loops visit them.
RECURSIVE LoopOrder(_)
LoopOrder(users) ==
    IF users = <<>> THEN <<>>
    ELSE [j \in 1 .. Len(Head(users).birthdays) |->
             [user |-> Head(users)._id, birthday |-> Head(users).birthdays[j]]]
         \o LoopOrder(Tail(users))

\* Variant: the lookback is not subtracted.
QueryCutoffNoLookback(t) == t

\* Variant: the lookback is four days.
QueryCutoffLonger(t) == t - 2 * LookbackHours

\* The condition of the dedup query's createdAt: { $gte: Date.now() - 48h },
\* built at instant t.
QueryCutoff(t) == t - LookbackHours

\* Variant: the query reads the metadata key 'dayCount', which no document has.
ExistingNotificationByDayCount(st, userId, birthdayId, daysUntilStr, cutoff) ==
    \E n \in st :
        /\ n.userId = userId
        /\ n.birthdayId = birthdayId
        /\ "dayCount" \in DOMAIN n.metadata
        /\ n.metadata["dayCount"] = daysUntilStr
        /\ n.createdAt >= cutoff

\* Variant: the query leaves out the metadata day count.
ExistingNotificationAnyDayCount(st, userId, birthdayId, daysUntilStr, cutoff) ==
    \E n \in st :
        /\ n.userId = userId
        /\ n.birthdayId = birthdayId
        /\ n.createdAt >= cutoff

\* Notification.findOne({userId, birthdayId, 'metadata.daysUntil', createdAt: {$gte}}):
\* whether some stored document matches.
ExistingNotification(st, userId, birthdayId, daysUntilStr, cutoff) ==
    \E n \in st :
        /\ n.userId = userId
        /\ n.birthdayId = birthdayId
        /\ "daysUntil" \in DOMAIN n.metadata
        /\ n.metadata["daysUntil"] = daysUntilStr
        /\ n.createdAt >= cutoff

\* Index of the first pair at or after i whose birthday is in an alert window
\* (Len(work) + 1 when there is none): the loops run on, without suspending,
\* over the birthdays that need no storage call.
RECURSIVE NextAlert(_, _, _)
NextAlert(work, today, i) ==
    IF i > Len(work) THEN i
    ELSE IF InWindow(DaysUntil(work[i].birthday.date, today)) THEN i
    ELSE NextAlert(work, today, i + 1)

\* Variant: after an insert the loops do not move on: the same birthday is
\* taken up once more.
RunLoopsAgain(cy, i, t) ==
    LET j == NextAlert(cy.work, cy.today, IF cy.pc = "save" THEN cy.i ELSE i)
    IN  IF j <= Len(cy.work)
        THEN [cy EXCEPT !.pc = "query", !.i = j, !.cutoff = QueryCutoff(t)]
        ELSE [cy EXCEPT !.pc = "end", !.i = j]

\* The invocation after its loops ran on from pair i at instant t: suspended at
\* the dedup query of the next birthday in a window, or finished.
RunLoops(cy, i, t) ==
    LET j == NextAlert(cy.work, cy.today, i)
    IN  IF j <= Len(cy.work)
        THEN [cy EXCEPT !.pc = "query", !.i = j, !.cutoff = QueryCutoff(t)]
        ELSE [cy EXCEPT !.pc = "end", !.i = j]

\* The invocation after `if (!existingNotification)` at instant t: suspended in
\* save() of the new reminder, or on to the next pair.
AfterQuery(cy, existing, t) ==
    LET w == cy.work[cy.i]
    IN  IF ~existing
        THEN [cy EXCEPT !.pc = "save",
                        !.doc = BirthdayReminder(w.user, w.birthday,
                                    DaysUntil(w.birthday.date, cy.today), t)]
        ELSE RunLoops([cy EXCEPT !.hits = @ + 1], cy.i + 1, t)

\* Variant: a rejected query is taken for "no document found".
AfterQueryErrorAsNotFound(cy, t) == AfterQuery(cy, FALSE, t)

\* The invocation after the dedup query rejected at instant t: the exception
\* leaves the loops for the catch block.
AfterQueryError(cy, t) == [cy EXCEPT !.pc = "error"]

\* Variant: the storage calls are outside the try block.
ScanErrorUncaught == FALSE

\* try { ... } catch (error) { console.error(...) } encloses the whole body:
\* no error leaves checkUpcomingBirthdays.
ScanErrorCaught == TRUE

\* Variant: the catch block ends the process, as the connection handler of the
\* older server file does.
ProcExitsOnScanError == FALSE

\* The catch block only logs: the process stays up.
ProcAfterScanError == TRUE

\* History record of invocation cy ending as nxt (pc "end" or "error").
Ended(cy, nxt) ==
    [today |-> nxt.today, ok |-> nxt.pc = "end", stage |-> cy.pc,
     inserted |-> nxt.inserted, hits |-> nxt.hits, prevOk |-> nxt.prevOk,
     reached |-> nxt.i, size |-> Len(nxt.work)]

\* Invocation cy moves on to nxt; an ended invocation is gone.
Settle(cy, nxt) ==
    \E n \in {nxt} :
        IF n.pc \in {"end", "error"}
        THEN /\ cycles' = cycles \ {cy}
             /\ last' = Ended(cy, n)
             /\ lastOk' = IF n.pc = "end" THEN n.today ELSE lastOk
             /\ escaped' = IF n.pc = "error" /\ ~ScanErrorCaught THEN escaped + 1 ELSE escaped
             /\ procUp' = IF n.pc = "error" THEN ProcAfterScanError ELSE procUp
        ELSE /\ cycles' = (cycles \ {cy}) \cup {n}
             /\ UNCHANGED <<last, lastOk, escaped, procUp>>

\* checkUpcomingBirthdays() is called at instant `now`: it computes today and
\* suspends in User.find().
Invoke ==
    /\ cycles' = cycles \cup {[NewCycle EXCEPT !.pc = "find", !.today = Today(now),
                                               !.start = now, !.prevOk = lastOk]}
    /\ started' = started + 1
    /\ overlapped' = (overlapped \/ cycles # {})

\* User.find().populate('birthdays') resolves.
FindUsers(cy) ==
    /\ procUp
    /\ cy.pc = "find"
    /\ \E users \in {PopulatedUsers(birthdays)} :
          Settle(cy, RunLoops([cy EXCEPT !.work = LoopOrder(users)], 1, now))
    /\ UNCHANGED <<now, db, sched, timerDue, schedNow, birthdays, store, nextId,
                   emitted, started, overlapped, failures, requests, timers, reading, created, zone>>

\* Notification.findOne(...) resolves.
FindExisting(cy) ==
    /\ procUp
    /\ cy.pc = "query"
    /\ LET w == cy.work[cy.i]
           existing == ExistingNotification(store, w.user, w.birthday._id,
                           NumberToString(DaysUntil(w.birthday.date, cy.today)), cy.cutoff)
       IN  Settle(cy, AfterQuery(cy, existing, now))
    /\ UNCHANGED <<now, db, sched, timerDue, schedNow, birthdays, store, nextId,
                   emitted, started, overlapped, failures, requests, timers, reading, created, zone>>

\* Variant: the save is an upsert on (userId, birthdayId), replacing what the
\* collection holds for that birthday.
InsertOrReplace(st, doc) ==
    {n \in st : ~(n.userId = doc.userId /\ n.birthdayId = doc.birthdayId)} \cup {doc}

\* notification.save() of a new document: the collection gains it and nothing
\* else changes.
InsertOne(st, doc) == st \cup {doc}

\* notification.save() resolves: the document is in the collection.
SaveNotification(cy) ==
    /\ procUp
    /\ cy.pc = "save"
    /\ LET w == cy.work[cy.i]
           doc == [cy.doc EXCEPT !._id = NotificationId(nextId)]
       IN  /\ store' = InsertOne(store, doc)
           /\ emitted' = emitted \cup
                 {[_id |-> doc._id, userId |-> doc.userId, birthdayId |-> doc.birthdayId,
                   daysUntil |-> doc.metadata["daysUntil"], at |-> now,
                   today |-> cy.today, date |-> w.birthday.date,
                   allow |-> w.birthday.allowNotifications]}
           /\ Settle(cy, RunLoops([cy EXCEPT !.inserted = @ + 1, !.doc = NoDoc],
                                 cy.i + 1, now))
    /\ nextId' = nextId + 1
    /\ UNCHANGED <<now, db, sched, timerDue, schedNow, birthdays, started, overlapped, failures,
                   requests, timers, reading, created, zone>>

\* User.find() rejects.
FindUsersFails(cy) ==
    /\ procUp
    /\ cy.pc = "find"
    /\ failures < MaxFailures
    /\ failures' = failures + 1
    /\ Settle(cy, [cy EXCEPT !.pc = "error"])
    /\ UNCHANGED <<now, db, sched, timerDue, schedNow, birthdays, store, nextId,
                   emitted, started, overlapped, requests, timers, reading, created, zone>>

\* Notification.findOne(...) rejects.
FindExistingFails(cy) ==
    /\ procUp
    /\ cy.pc = "query"
    /\ failures < MaxFailures
    /\ failures' = failures + 1
    /\ Settle(cy, AfterQueryError(cy, now))
    /\ UNCHANGED <<now, db, sched, timerDue, schedNow, birthdays, store, nextId,
                   emitted, started, overlapped, requests, timers, reading, created, zone>>

\* notification.save() rejects: createNotification logs and rethrows.
SaveNotificationFails(cy) ==
    /\ procUp
    /\ cy.pc = "save"
    /\ failures < MaxFailures
    /\ failures' = failures + 1
    /\ Settle(cy, [cy EXCEPT !.pc = "error"])
    /\ UNCHANGED <<now, db, sched, timerDue, schedNow, birthdays, store, nextId,
                   emitted, started, overlapped, requests, timers, reading, created, zone>>

\* ------------------------------------------------------------- the scheduler

\* Variant: 08:00 sharp already counts as past.
FirstTriggerAtOrPast(t) ==
    LET eightAM == SetHours(t, TriggerHour)
    IN  IF t >= eightAM THEN AddDate(eightAM, 1) ELSE eightAM

\* eightAM of scheduleBirthdayChecks run at instant t: today 08:00, or
\* tomorrow's when t is past it.
FirstTrigger(t) ==
    LET eightAM == SetHours(t, TriggerHour)
    IN  IF t > eightAM THEN AddDate(eightAM, 1) ELSE eightAM

\* initialDelay = eightAM - now
InitialDelay(t) == FirstTrigger(t) - t

\* Variant: a firing skips a period.
NextIntervalSkipping(due) == due + 2 * PeriodHours

\* The interval's next firing after it fired (or was armed) for instant due:
\* nothing in a scan's outcome re-arms or clears it.
NextInterval(due) == due + PeriodHours

\* Variant: scheduleBirthdayChecks() is the handler of the connection's
\* 'connected' event, which is emitted again each time the driver reconnects.
ConnectOkOnEveryConnected ==
    /\ procUp
    /\ db \in {"connecting", "connected"}
    /\ db' = "connected"
    /\ sched' = "waiting"
    /\ schedNow' = now
    /\ timerDue' = now + InitialDelay(now)
    /\ timers' = timers + 1
    /\ UNCHANGED <<now, cycles, birthdays, store, nextId, emitted, last, lastOk,
                   started, overlapped, failures, escaped, procUp, requests, reading, created, zone>>

\* mongoose.connect(...).then(...): the connection is up and Server.js calls
\* scheduleBirthdayChecks(), which arms the timeout.
ConnectOk ==
    /\ procUp
    /\ db = "connecting"
    /\ db' = "connected"
    /\ sched' = "waiting"
    /\ schedNow' = now
    /\ timerDue' = now + InitialDelay(now)
    /\ timers' = timers + 1
    /\ UNCHANGED <<now, cycles, birthdays, store, nextId, emitted, last, lastOk,
                   started, overlapped, failures, escaped, procUp, requests, reading, created, zone>>

\* mongoose.connect(...).catch(...): Server.js logs and arms a reconnect.
ConnectFails ==
    /\ procUp
    /\ db = "connecting"
    /\ db' = "failed"
    /\ UNCHANGED <<now, sched, timerDue, schedNow, cycles, birthdays, store, nextId,
                   emitted, last, lastOk, started, overlapped, failures, escaped, procUp, requests, timers, reading, created, zone>>

\* The reconnect's mongoose.connect(...) succeeds; it has no continuation.
ReconnectOk ==
    /\ procUp
    /\ db = "failed"
    /\ db' = "connected"
    /\ UNCHANGED <<now, sched, timerDue, schedNow, cycles, birthdays, store, nextId,
                   emitted, last, lastOk, started, overlapped, failures, escaped, procUp, requests, timers, reading, created, zone>>

\* Variant: the timeout's callback only arms the interval, so the first scan
\* comes a period later.
TimeoutFiresWithoutScan ==
    /\ procUp
    /\ sched = "waiting"
    /\ now >= timerDue
    /\ sched' = "running"
    /\ timerDue' = now + PeriodHours
    /\ schedNow' = -1
    /\ UNCHANGED <<now, db, cycles, birthdays, store, nextId, emitted, last, lastOk,
                   started, overlapped, failures, escaped, procUp, requests, timers, reading, created, zone>>

\* The timeout fires: checkUpcomingBirthdays() is called and setInterval arms
\* the periodic timer.
TimeoutFires ==
    /\ procUp
    /\ sched = "waiting"
    /\ now >= timerDue
    /\ Cardinality(cycles) < MaxActive
    /\ Invoke
    /\ sched' = "running"
    /\ timerDue' = now + PeriodHours
    /\ schedNow' = -1
    /\ timers' = (timers - 1) + 1    \* the timeout is spent, the interval armed
    /\ UNCHANGED <<now, db, birthdays, store, nextId, emitted, last, lastOk,
                   failures, escaped, procUp, requests, reading, created, zone>>

\* Variant: the periodic timer is a second setTimeout, which fires once.
IntervalFiresOnce ==
    /\ procUp
    /\ sched = "running"
    /\ now >= timerDue
    /\ started < 2
    /\ Cardinality(cycles) < MaxActive
    /\ Invoke
    /\ timerDue' = NextInterval(timerDue)
    /\ UNCHANGED <<now, db, sched, schedNow, birthdays, store, nextId, emitted, last,
                   lastOk, failures, escaped, procUp, requests, timers, reading, created, zone>>

\* The interval fires: checkUpcomingBirthdays() is called again.
IntervalFires ==
    /\ procUp
    /\ sched = "running"
    /\ now >= timerDue
    /\ Cardinality(cycles) < MaxActive
    /\ Invoke
    /\ timerDue' = NextInterval(timerDue)
    /\ UNCHANGED <<now, db, sched, schedNow, birthdays, store, nextId, emitted, last,
                   lastOk, failures, escaped, procUp, requests, timers, reading, created, zone>>

\* Time passes, up to the instant the armed timer is due.
Advance ==
    /\ now < Horizon
    /\ sched # "none" => now < timerDue
    /\ now' = Min(Horizon, IF sched # "none" THEN Min(now + Step, timerDue) ELSE now + Step)
    /\ UNCHANGED <<db, sched, timerDue, schedNow, cycles, birthdays, store, nextId,
                   emitted, last, lastOk, started, overlapped, failures, escaped, procUp, requests, timers, reading, created, zone>>

\* ----------------------------------------------------------- REST handlers

\* PATCH /api/notifications/:id/read by account u, up to its second await:
\* Notification.findOne({_id, userId}) resolves with a document, the handler
\* sets isRead on its copy and suspends in notification.save().  Each request
\* has a handler of its own (req is the request's ordinal), so two requests
\* for one notification are two suspended handlers.
MarkRead(u, id) ==
    /\ procUp /\ db = "connected"
    /\ requests < MaxRequests
    /\ \E n \in store : n._id = id /\ n.userId = u
    /\ reading' = reading \cup {[userId |-> u, _id |-> id, req |-> requests + 1]}
    /\ requests' = requests + 1
    /\ UNCHANGED <<now, db, sched, timerDue, schedNow, cycles, birthdays, store, nextId,
                   emitted, last, lastOk, started, overlapped, failures, escaped, procUp, timers, created, zone>>

\* notification.save() of handler r resolves: the stored document of that _id
\* has isRead set; when it has been deleted meanwhile, save() rejects with
\* DocumentNotFoundError, the handler answers 500 and nothing is written.
MarkReadSave(r) ==
    /\ procUp
    /\ r \in reading
    /\ reading' = reading \ {r}
    /\ store' = {IF n._id = r._id THEN [n EXCEPT !.isRead = TRUE] ELSE n : n \in store}
    /\ UNCHANGED <<now, db, sched, timerDue, schedNow, cycles, birthdays, nextId,
                   emitted, last, lastOk, started, overlapped, failures, escaped, procUp, timers, requests, created, zone>>

\* notification.save() of handler r rejects (a storage error): the catch block
\* answers 500 and the stored document stays as it was.
MarkReadSaveFails(r) ==
    /\ procUp
    /\ r \in reading
    /\ reading' = reading \ {r}
    /\ UNCHANGED <<now, db, sched, timerDue, schedNow, cycles, birthdays, store, nextId,
                   emitted, last, lastOk, started, overlapped, failures, escaped, procUp, timers, requests, created, zone>>

\* The arrays of ids a PATCH /api/notifications/read-multiple body may carry.
ReadMultipleBodies ==
    {ids \in SUBSET {n._id : n \in store} : Cardinality(ids) \in {1, 2}}

\* PATCH /api/notifications/read-multiple by account u with body {ids}:
\* updateMany({_id: {$in: ids}, userId}, {$set: {isRead: true}}).
MarkMultipleRead(u, ids) ==
    /\ procUp /\ db = "connected"
    /\ requests < MaxRequests
    /\ store' = {IF n._id \in ids /\ n.userId = u THEN [n EXCEPT !.isRead = TRUE] ELSE n :
                    n \in store}
    /\ requests' = requests + 1
    /\ UNCHANGED <<now, db, sched, timerDue, schedNow, cycles, birthdays, nextId,
                   emitted, last, lastOk, started, overlapped, failures, escaped, procUp, timers, reading, created, zone>>

\* PATCH /api/notifications/read-all by account u.
MarkAllRead(u) ==
    /\ procUp /\ db = "connected"
    /\ requests < MaxRequests
    /\ store' = {IF n.userId = u /\ ~n.isRead THEN [n EXCEPT !.isRead = TRUE] ELSE n :
                    n \in store}
    /\ requests' = requests + 1
    /\ UNCHANGED <<now, db, sched, timerDue, schedNow, cycles, birthdays, nextId,
                   emitted, last, lastOk, started, overlapped, failures, escaped, procUp, timers, reading, created, zone>>

\* DELETE /api/notifications/<param> by account u.  The '/:id' route is
\* registered before '/clear-all', so the path "clear-all" reaches it too, as
\* an id no document has.
DeleteNotification(u, param) ==
    /\ procUp /\ db = "connected"
    /\ requests < MaxRequests
    /\ store' = {n \in store : ~(n._id = param /\ n.userId = u)}
    /\ requests' = requests + 1
    /\ UNCHANGED <<now, db, sched, timerDue, schedNow, cycles, birthdays, nextId,
                   emitted, last, lastOk, started, overlapped, failures, escaped, procUp, timers, reading, created, zone>>

\* The bodies a PUT /api/birthdays/:id request may carry: a new name and date
\* without an allowNotifications field, or allowNotifications = 'false' without
\* a name or a date (an absent name is "").
EditBodies ==
    {[name |-> "Anna", date |-> d, allowNotifications |-> "undefined"] : d \in EditDates}
    \cup {[name |-> "", date |-> NoDate, allowNotifications |-> "false"]}

\* PUT /api/birthdays/:id by account u: a field the body leaves out is not
\* written, except allowNotifications, which is written as anything but 'false'.
UpdateBirthday(u, b, body) ==
    /\ procUp /\ db = "connected"
    /\ requests < MaxRequests
    /\ b \in DOMAIN birthdays
    /\ birthdays[b].user = u
    /\ birthdays' = [birthdays EXCEPT
          ![b].name = IF body.name = "" THEN @ ELSE body.name,
          ![b].date = IF body.date = NoDate THEN @ ELSE body.date,
          ![b].allowNotifications = body.allowNotifications # "false"]
    /\ requests' = requests + 1
    /\ UNCHANGED <<now, db, sched, timerDue, schedNow, cycles, store, nextId,
                   emitted, last, lastOk, started, overlapped, failures, escaped, procUp, timers, reading, created, zone>>

\* The bodies a POST /api/birthdays request may carry: a name and a date, or a
\* name alone.
CreateBodies ==
    {[name |-> "Dee", date |-> MonthDay(2, 12), allowNotifications |-> "undefined"],
     [name |-> "Eve", date |-> NoDate, allowNotifications |-> "undefined"]}

\* POST /api/birthdays by account u: a body without a name or a date is
\* answered 400; otherwise birthday.save() adds a document owned by u.
CreateBirthday(u, body) ==
    /\ procUp /\ db = "connected"
    /\ requests < MaxRequests
    /\ created < MaxCreated
    /\ body.name # "" /\ body.date # NoDate
    /\ LET id == BirthdayId(Len(BirthdayOrder) + created + 1)
       IN  birthdays' =
              [b \in DOMAIN birthdays \cup {id} |->
                  IF b = id
                  THEN [_id |-> id, user |-> u, name |-> body.name, date |-> body.date,
                        allowNotifications |-> body.allowNotifications # "false"]
                  ELSE birthdays[b]]
    /\ created' = created + 1
    /\ requests' = requests + 1
    /\ UNCHANGED <<now, db, sched, timerDue, schedNow, cycles, store, nextId,
                   emitted, last, lastOk, started, overlapped, failures, escaped, procUp, timers, reading, zone>>

\* DELETE /api/birthdays/:id by account u: findOneAndDelete({_id, user}).
DeleteBirthday(u, b) ==
    /\ procUp /\ db = "connected"
    /\ requests < MaxRequests
    /\ b \in DOMAIN birthdays
    /\ birthdays[b].user = u
    /\ birthdays' = [c \in DOMAIN birthdays \ {b} |-> birthdays[c]]
    /\ requests' = requests + 1
    /\ UNCHANGED <<now, db, sched, timerDue, schedNow, cycles, store, nextId,
                   emitted, last, lastOk, started, overlapped, failures, escaped, procUp, timers, reading, created, zone>>

\* The values a DELETE request's path parameter may take.
DeleteParams == {n._id : n \in store} \cup {"clear-all"}

\* -------------------------------------------------------------- the program

Scan ==
    \E cy \in cycles :
        \/ FindUsers(cy)
        \/ FindExisting(cy)
        \/ SaveNotification(cy)
        \/ FindUsersFails(cy)
        \/ FindExistingFails(cy)
        \/ SaveNotificationFails(cy)

\* What happens without any request: the connection, the timers, the clock
\* and the steps of the scans in progress.
Background ==
    \/ ConnectOk
    \/ ConnectFails
    \/ ReconnectOk
    \/ TimeoutFires
    \/ IntervalFires
    \/ Advance
    \/ Scan

Next ==
    \/ Background
    \/ \E u \in Users : \E n \in store : MarkRead(u, n._id)
    \/ \E r \in reading : MarkReadSave(r)
    \/ \E r \in reading : MarkReadSaveFails(r)
    \/ \E u \in Users : \E ids \in ReadMultipleBodies : MarkMultipleRead(u, ids)
    \/ \E u \in Users : MarkAllRead(u)
    \/ \E u \in Users : \E p \in DeleteParams : DeleteNotification(u, p)
    \/ \E u \in Users : \E b \in DOMAIN birthdays : \E body \in EditBodies :
          UpdateBirthday(u, b, body)
    \/ \E u \in Users : \E body \in CreateBodies : CreateBirthday(u, body)
    \/ \E u \in Users : \E b \in DOMAIN birthdays : DeleteBirthday(u, b)

Spec == Init /\ [][Next]_vars

\* The server left to itself, under fairness: time passes and a due timer
\* fires.  A pending storage call may stay pending for ever.
FairSpec ==
    /\ Init
    /\ [][Background]_vars
    /\ WF_vars(Advance)
    /\ WF_vars(TimeoutFires)
    /\ WF_vars(IntervalFires)

\* ------------------------------------------ the scan called directly, in turn

\* The instants the clock of SpecSeq visits: 08:00 of the Epoch day, 2 hours,
\* 24 hours, 48 hours and 50 hours later.
SeqInstants == {8, 10, 32, 56, 58}

\* The database is connected and the scheduler has not been started.
InitSeq ==
    /\ zone = "UTC"
    /\ now \in SeqInstants
    /\ db = "connected"
    /\ sched = "none"
    /\ timerDue = 0
    /\ schedNow = -1
    /\ cycles = {}
    /\ birthdays = InitialBirthdays
    /\ store = {}
    /\ nextId = 1
    /\ emitted = {}
    /\ last = NoLast
    /\ lastOk = -1
    /\ started = 0
    /\ overlapped = FALSE
    /\ failures = 0
    /\ escaped = 0
    /\ procUp = TRUE
    /\ requests = 0
    /\ timers = 0
    /\ reading = {}
    /\ created = 0

\* The exported checkUpcomingBirthdays is called, at any instant at which no
\* earlier call is still in flight.
InvokeCheck ==
    /\ procUp
    /\ cycles = {}
    /\ started < MaxCalls
    /\ Invoke
    /\ UNCHANGED <<now, db, sched, timerDue, schedNow, birthdays, store, nextId,
                   emitted, last, lastOk, failures, escaped, procUp, requests, timers, reading, created, zone>>

\* Time passes until instant t.
Tick(t) ==
    /\ now < t
    /\ now' = t
    /\ UNCHANGED <<db, sched, timerDue, schedNow, cycles, birthdays, store, nextId,
                   emitted, last, lastOk, started, overlapped, failures, escaped,
                   procUp, requests, timers, reading, created, zone>>

NextSeq ==
    \/ InvokeCheck
    \/ \E t \in SeqInstants : Tick(t)
    \/ Scan

SpecSeq == InitSeq /\ [][NextSeq]_vars

\* ------------------- the scan called in turn while a birthday is moved on

\* The instants the clock of SpecMoved visits: 08:00 of the Epoch day, 48 hours,
\* 49 hours and 72 hours later.
MovedInstants == {8, 56, 57, 80}

\* The dates the PUT requests move b1 to: two and three days on.
MovedDates == {MonthDay(2, 19), MonthDay(2, 20)}

\* The bodies of those requests: a date and nothing else.
MoveBodies ==
    {[name |-> "", date |-> d, allowNotifications |-> "undefined"] : d \in MovedDates}

\* A PUT /api/birthdays/:id for b1 by its owner.
MoveDate == \E body \in MoveBodies : UpdateBirthday("u1", "b1", body)

\* Time passes until instant t; while a scan is in flight, by no more than the
\* hour that is the resolution of the clock.
TickMoved(t) ==
    /\ cycles = {} \/ t = now + 1
    /\ Tick(t)

InitMoved == InitSeq /\ now = TriggerHour

NextMoved ==
    \/ InvokeCheck
    \/ \E t \in MovedInstants : TickMoved(t)
    \/ Scan
    \/ MoveDate

SpecMoved == InitMoved /\ [][NextMoved]_vars

\* ------------------------- the scan called on sample days and birthday dates

\* The dates b1 may hold: 29 February, the last day of a month and of the
\* year, the first day of a month and of the year, 28 February, a day after
\* daylight saving time ends, null and none.
CalcDates ==
    {MonthDay(1, 29), MonthDay(0, 31), MonthDay(11, 31), MonthDay(2, 1),
     MonthDay(0, 1), MonthDay(1, 28), MonthDay(10, 4), NullDate, NoDate}

\* 08:00 standard time of every day from the Epoch on.
CalcInstants == {d * HoursPerDay + TriggerHour : d \in 0 .. CalcDays}

InitCalc ==
    /\ zone \in Zones
    /\ now \in CalcInstants
    /\ birthdays \in {[InitialBirthdays EXCEPT !["b1"].date = d] : d \in CalcDates}
    /\ db = "connected"
    /\ sched = "none"
    /\ timerDue = 0
    /\ schedNow = -1
    /\ cycles = {}
    /\ store = {}
    /\ nextId = 1
    /\ emitted = {}
    /\ last = NoLast
    /\ lastOk = -1
    /\ started = 0
    /\ overlapped = FALSE
    /\ failures = 0
    /\ escaped = 0
    /\ procUp = TRUE
    /\ requests = 0
    /\ timers = 0
    /\ reading = {}
    /\ created = 0

NextCalc ==
    \/ InvokeCheck
    \/ Scan

SpecCalc == InitCalc /\ [][NextCalc]_vars

\* ------------------------------- the timers followed through an anniversary

\* Days from the Epoch day, on which daylight saving time begins in the zone
\* that observes it, to 28 October 2024, in the week before it ends there.
AutumnDay == DayNumber(2024, 9, 28) - EpochDay

\* The days on which the server may start.
YearlyFirstDays == {FromLocal(0), FromLocal(AutumnDay * HoursPerDay)}

\* The day on which the server of the behaviour in progress started.
YearlyFirstDay ==
    FromLocal(IF now < AutumnDay * HoursPerDay - 1 THEN 0 ELSE AutumnDay * HoursPerDay)

\* Local midnight of the day on which the clock stops.
YearlyHorizon == AddDate(YearlyFirstDay, YearlyDays)

\* The month and day-of-month of instant t.
DayOf(t) == MonthDay(GetMonth(t), GetDate(t))

\* The Birthday documents stored when the server starts on day f: as many days
\* ahead as those of InitialBirthdays are on the Epoch day (b1 7, b2 1, b3 3).
YearlyBirthdays(f) ==
    [b \in BirthdayIds |->
        [InitialBirthdays[b] EXCEPT
            !.date = DayOf(AddDate(f, IF b = "b1" THEN 7 ELSE IF b = "b2" THEN 1 ELSE 3))]]

\* The server starts at 06:00 or at 08:00 local time.
InitYearly ==
    /\ zone \in Zones
    /\ \E f \in YearlyFirstDays :
          /\ now \in {SetHours(f, 6), SetHours(f, TriggerHour)}
          /\ birthdays = YearlyBirthdays(f)
    /\ db = "connecting"
    /\ sched = "none"
    /\ timerDue = 0
    /\ schedNow = -1
    /\ cycles = {}
    /\ store = {}
    /\ nextId = 1
    /\ emitted = {}
    /\ last = NoLast
    /\ lastOk = -1
    /\ started = 0
    /\ overlapped = FALSE
    /\ failures = 0
    /\ escaped = 0
    /\ procUp = TRUE
    /\ requests = 0
    /\ timers = 0
    /\ reading = {}
    /\ created = 0

\* Time passes, up to the instant the armed timer is due, while no scan is in
\* progress: the storage calls of a scan resolve or fail within the hour
\* (socketTimeoutMS is 45 seconds).
AdvanceYearly ==
    /\ now < YearlyHorizon
    /\ cycles = {}
    /\ sched # "none" => now < timerDue
    /\ now' = Min(YearlyHorizon,
                  IF sched # "none" THEN Min(now + Step, timerDue) ELSE now + Step)
    /\ UNCHANGED <<db, sched, timerDue, schedNow, cycles, birthdays, store, nextId,
                   emitted, last, lastOk, started, overlapped, failures, escaped, procUp, requests, timers, reading, created, zone>>

\* The bodies of the PUT requests for b1: its date moved one day on, or its
\* alerts switched off.
YearlyEditBodies ==
    {[name |-> "Anna", date |-> DayOf(AddDate(YearlyFirstDay, 8)),
      allowNotifications |-> "undefined"],
     [name |-> "", date |-> NoDate, allowNotifications |-> "false"]}

\* A PUT /api/birthdays/:id for b1 by its owner, served on the first day.
EarlyEdit ==
    /\ now < AddDate(YearlyFirstDay, 1)
    /\ \E body \in YearlyEditBodies : UpdateBirthday("u1", "b1", body)

NextYearly ==
    \/ ConnectOk
    \/ TimeoutFires
    \/ IntervalFires
    \/ AdvanceYearly
    \/ Scan
    \/ EarlyEdit

SpecYearly == InitYearly /\ [][NextYearly]_vars

\* The same under fairness: time passes, a due timer fires, and a pending
\* storage call resolves or fails.
FairYearly ==
    /\ InitYearly
    /\ [][NextYearly]_vars
    /\ WF_vars(AdvanceYearly)
    /\ WF_vars(TimeoutFires)
    /\ WF_vars(IntervalFires)
    /\ WF_vars(Scan)

\* ------------------------------------------------------------------- claims

\* Same account, same birthday, same metadata day count.
SameTriple(a, b) ==
    /\ a.userId = b.userId
    /\ a.birthdayId = b.birthdayId
    /\ a.metadata["daysUntil"] = b.metadata["daysUntil"]

Distance(a, b) == IF a >= b THEN a - b ELSE b - a

\* A step that inserts a notification finds no other stored notification of
\* the same triple created in the 48 hours up to the insert.
InsertFindsWindowEmpty ==
    \A n \in store' \ store :
        ~ \E m \in store :
              /\ SameTriple(m, n)
              /\ m.createdAt >= now - 48
              /\ m.createdAt <= now

\* An invocation that started after one with the same `today` had run to
\* completion, and whose dedup queries were issued no later than 48 hours after
\* that day began, has inserted nothing and is not about to.
SecondRunInsertsNothing ==
    \A cy \in cycles :
        (cy.prevOk = cy.today /\ cy.cutoff <= cy.today)
            => (cy.pc # "save" /\ cy.inserted = 0)

\* C1: over non-overlapping scan cycles started at arbitrary instants, a
\* notification is inserted at instant t only when no stored notification of
\* the same (account, birthday, day count) was created in [t - 48h, t]; a second
\* cycle run right after (or hours after) a completed one with the same `today`
\* inserts nothing.
C1_DedupInvariant ==
    /\ [][InsertFindsWindowEmpty]_vars
    /\ []SecondRunInsertsNothing

\* A second complete run on the same `today` met the guard and inserted nothing.
C1_Witness ==
    /\ last.ok
    /\ last.prevOk = last.today
    /\ last.hits > 0
    /\ last.inserted = 0
    /\ store # {}

\* C2: a birthday whose allowNotifications is false never causes the scan to
\* insert a notification.
C2_DisabledNeverNotified == \A e \in emitted : e.allow

\* C3: the scan inserts a notification only for a birthday whose computed
\* daysUntil is 0, 1, 3 or 7, and every stored birthday notification carries one
\* of "0", "1", "3", "7" as its metadata day count.
C3_OnlyAlertWindows ==
    /\ \A e \in emitted :
          /\ DaysUntil(e.date, e.today) \in {0, 1, 3, 7}
          /\ e.daysUntil = NumberToString(DaysUntil(e.date, e.today))
    /\ \A n \in store :
          n.type = "birthday" => n.metadata["daysUntil"] \in {"0", "1", "3", "7"}
    /\ \A cy \in cycles :
          cy.pc \in {"query", "save"}
              => DaysUntil(cy.work[cy.i].birthday.date, cy.today) \in {0, 1, 3, 7}

\* A scan has passed over a birthday that is 2, 4, 5, 6 or 8 or more days out,
\* inserting nothing for it, and stands at one that is in a window.
C3_Witness ==
    \E cy \in cycles :
        /\ cy.pc = "query"
        /\ \E j \in 1 .. (cy.i - 1) :
              /\ DaysUntil(cy.work[j].birthday.date, cy.today) \notin {0, 1, 3, 7}
              /\ ~ \E e \in emitted :
                      e.birthdayId = cy.work[j].birthday._id /\ e.today = cy.today

\* C4 as claimed: scan cycles that run one after the other, interleaved with
\* the notification requests, never insert the same (account, birthday, day
\* count) twice less than 48 hours apart.
C4_NeverTwiceWithin48h ==
    ~overlapped =>
        \A e1, e2 \in emitted :
            (e1._id # e2._id /\ e1.userId = e2.userId /\ e1.birthdayId = e2.birthdayId
                /\ e1.daysUntil = e2.daysUntil)
                => Distance(e1.at, e2.at) >= 48

\* C4, amended: while scan cycles run one after the other, no two notifications
\* of the same (account, birthday, day count) that are both stored have creation
\* timestamps less than 48 hours apart, whatever was marked read; once the
\* earlier one is deleted, the alert may be inserted again.
C4_NoStoredPairWithin48h ==
    ~overlapped =>
        \A n, m \in store :
            (n._id # m._id /\ SameTriple(n, m))
                => Distance(n.createdAt, m.createdAt) >= 48

\* The day after b1's "7" alert was stored and marked read, b1 (moved one day
\* on) is 7 days out again: the scan met the guard and ran to completion.
C4_Witness ==
    /\ ~overlapped
    /\ last.ok
    /\ last.hits > 0
    /\ "b1" \in DOMAIN birthdays
    /\ birthdays["b1"].date = MonthDay(2, 18)
    /\ \E n \in store : n.birthdayId = "b1" /\ n.isRead /\ n.createdAt < last.today

\* C5: a storage error inside a scan is caught inside checkUpcomingBirthdays:
\* the invocation ends there, nothing escapes it, the process stays up and the
\* armed timer is left as it was.
C5_ErrorsStayInside ==
    /\ [][failures' # failures =>
            /\ escaped' = 0
            /\ procUp'
            /\ Cardinality(cycles') = Cardinality(cycles) - 1
            /\ ~last'.ok
            /\ sched' = sched
            /\ timerDue' = timerDue]_vars
    /\ [](escaped = 0 /\ procUp)

\* A scan ended on an error and the timer has since started a later one.
C5_Witness ==
    /\ failures > 0
    /\ ~last.ok
    /\ last.today >= 0
    /\ \E cy \in cycles : cy.today > last.today

\* C6: once the interval is armed it stays armed, its due time changes only by
\* a firing at the due instant, to exactly one period later, each firing
\* starting a scan, whatever the earlier scans' outcome; and the k-th scan is
\* followed by a (k+1)-th, day after day, for as long as the clock of the
\* model reaches the due time.
C6_IntervalKeepsFiring ==
    /\ [][sched = "running" =>
            /\ sched' = "running"
            /\ \/ timerDue' = timerDue
               \/ /\ timerDue' = timerDue + 24
                  /\ now = timerDue
                  /\ started' = started + 1]_vars
    /\ \A k \in 1 .. (YearlyDays - 1) :
          (sched = "running" /\ started = k /\ timerDue <= YearlyHorizon)
              ~> (sched = "running" /\ started = k + 1 /\ now = timerDue - 24)

\* The interval has fired for the seventh time, a week after the timeout, and
\* the scan before this one ended on an error.
C6_Witness ==
    /\ sched = "running"
    /\ started = 8
    /\ ~last.ok
    /\ last.today >= 0
    /\ \E cy \in cycles : cy.today > last.today /\ cy.start = timerDue - 24

\* C7: when the dedup query of a birthday rejects, that step inserts nothing
\* and the invocation is over: it does not go on to save a notification as
\* though none had been found.
C7_FailedReadInsertsNothing ==
    [][\A cy \in cycles :
          (cy.pc = "query" /\ failures' = failures + 1 /\ cy \notin cycles')
              => /\ store' = store
                 /\ emitted' = emitted
                 /\ \A c2 \in cycles' : c2.start # cy.start]_vars

\* The dedup query of the first birthday in a window rejected while the
\* collection held nothing: the scan ended with nothing inserted.
C7_Witness ==
    /\ ~last.ok
    /\ last.stage = "query"
    /\ last.inserted = 0
    /\ store = {}
    /\ cycles = {}

\* C8: a storage error in mid-scan rolls nothing back: the step leaves the
\* notification collection as it is, ends the invocation without visiting the
\* birthdays after it, and the process stays up.
C8_NoRollback ==
    [][failures' = failures + 1 =>
          /\ store' = store
          /\ nextId' = nextId
          /\ emitted' = emitted
          /\ procUp'
          /\ \E cy \in cycles : cycles' = cycles \ {cy}]_vars

\* A scan inserted notifications, then failed before its last birthday: what it
\* inserted is still stored.
C8_Witness ==
    /\ ~last.ok
    /\ last.inserted > 0
    /\ last.reached < last.size
    /\ requests = 0
    /\ cycles = {}
    /\ Cardinality({e \in emitted : e.today = last.today}) = last.inserted
    /\ \A e \in emitted : e.today = last.today => \E n \in store : n._id = e._id

\* C9 as claimed: the timeout is armed for an 08:00 instant strictly later than
\* the instant scheduleBirthdayChecks ran, at most 24 hours later.
C9_FirstTriggerStrictlyLater ==
    sched = "waiting" =>
        /\ timerDue > schedNow
        /\ timerDue - schedNow <= 24
        /\ timerDue % 24 = 8

\* C9, amended: the timeout is armed for today 08:00 unless the instant
\* scheduleBirthdayChecks ran is past it, and then for tomorrow 08:00: the
\* first 08:00 instant not before now, less than 24 hours away, and now itself
\* (delay 0) at 08:00 sharp.  Every scan the timers start starts at 08:00.
C9_FirstTriggerNotBeforeNow ==
    /\ sched = "waiting" =>
          /\ timerDue = (schedNow \div 24) * 24 + (IF schedNow % 24 <= 8 THEN 8 ELSE 32)
          /\ timerDue >= schedNow
          /\ timerDue - schedNow < 24
          /\ started = 0
    /\ \A cy \in cycles : cy.start % 24 = 8

\* scheduleBirthdayChecks ran at 08:00 sharp and armed the timeout for that instant.
C9_Witness ==
    /\ sched = "waiting"
    /\ schedNow % 24 = 8
    /\ timerDue = schedNow

\* C10: no invocation of checkUpcomingBirthdays is started while an earlier one
\* is still suspended at a storage call.
C10_OneScanAtATime == Cardinality(cycles) <= 1

\* C11: for every today the scan computes and every birthday date it reads
\* (29 February and the 31st of a month among them), nextBirthday is not before
\* today and falls in today's year or the year after.
C11_NextOccurrenceInRange ==
    \A cy \in cycles : \A k \in 1 .. Len(cy.work) :
        LET date == cy.work[k].birthday.date
            nb == NextBirthday(BirthDate(date), cy.today)
        IN  date # NoDate =>
                /\ nb >= cy.today
                /\ GetFullYear(nb) \in {GetFullYear(cy.today), GetFullYear(cy.today) + 1}

\* A scan read a 29 February birthday after 29 February of a leap year: its
\* next occurrence is 1 March of the year after.
C11_Witness ==
    \E cy \in cycles : \E k \in 1 .. Len(cy.work) :
        LET nb == NextBirthday(cy.work[k].birthday.date, cy.today)
        IN  /\ cy.work[k].birthday.date = MonthDay(1, 29)
            /\ IsLeap(GetFullYear(cy.today))
            /\ GetFullYear(nb) = GetFullYear(cy.today) + 1
            /\ GetMonth(nb) = 2
            /\ GetDate(nb) = 1

\* C12: for every today and every birthday date the scan reads, daysUntil is an
\* integer from 0 to 366, and it is 0 exactly when nextBirthday is today.
C12_DaysUntilRange ==
    \A cy \in cycles : \A k \in 1 .. Len(cy.work) :
        LET date == cy.work[k].birthday.date
            du == DaysUntil(date, cy.today)
        IN  date # NoDate =>
                /\ du \in 0 .. 366
                /\ du = 0 <=> NextBirthday(BirthDate(date), cy.today) = cy.today

\* A scan stands at a 29 February birthday on 1 March of a year that is not a
\* leap year: its day count is 0.
C12_Witness ==
    \E cy \in cycles :
        /\ cy.pc = "query"
        /\ cy.work[cy.i].birthday.date = MonthDay(1, 29)
        /\ ~IsLeap(GetFullYear(cy.today))
        /\ GetMonth(cy.today) = 2
        /\ GetDate(cy.today) = 1
        /\ DaysUntil(cy.work[cy.i].birthday.date, cy.today) = 0

\* C13: every record the scan has createBirthdayReminder store is owned by the
\* account, refers to the birthday, has type 'birthday', is unread, holds the
\* day count as a decimal string in its metadata, and its message is the
\* "Today" one exactly for day count 0, the "Tomorrow" one exactly for 1 and
\* the "<name>'s birthday is in <n> days" one otherwise.
C13_FactoryRecord ==
    [][\A n \in store' \ store :
          \E cy \in cycles :
              /\ cy.pc = "save"
              /\ LET w == cy.work[cy.i]
                     name == w.birthday.name
                     d == DaysUntil(w.birthday.date, cy.today)
                 IN  /\ n.userId = w.user
                     /\ n.birthdayId = w.birthday._id
                     /\ n.type = "birthday"
                     /\ n.isRead = FALSE
                     /\ \A k \in DOMAIN n.metadata : n.metadata[k] = NumberToString(d)
                     /\ Cardinality(DOMAIN n.metadata) = 1
                     /\ (n.message = "Today is " \o name \o "'s birthday!") <=> (d = 0)
                     /\ (n.message = "Tomorrow is " \o name \o "'s birthday") <=> (d = 1)
                     /\ (n.message = name \o "'s birthday is in " \o NumberToString(d)
                                         \o " days") <=> (d \notin {0, 1})]_vars

\* The scan of 2024-03-10 stored the alert for Ann's birthday of 17 March, and
\* a later one a "Today" alert.
C13_Witness ==
    /\ \E n \in store :
          /\ n.message = "Ann's birthday is in 7 days"
          /\ n.userId = "u1" /\ n.birthdayId = "b1"
          /\ n.type = "birthday"
          /\ ~n.isRead
          /\ n.metadata["daysUntil"] = "7"
          /\ n.createdAt < 24
    /\ \E n \in store : n.message = "Today is Bob's birthday!" /\ n.metadata["daysUntil"] = "0"

\* The dedup query invocation cy is suspended at would match a stored record:
\* same account, same birthday, same day-count string under 'daysUntil', created
\* no earlier than 48 hours before the query was issued.
GuardMatch(cy) ==
    LET w == cy.work[cy.i]
    IN  \E n \in store :
            /\ n.userId = w.user
            /\ n.birthdayId = w.birthday._id
            /\ n.metadata["daysUntil"] = NumberToString(DaysUntil(w.birthday.date, cy.today))
            /\ n.createdAt >= cy.cutoff

\* Invocation cy went past its birthday without saving, counting a guard hit.
GuardHit(cy) ==
    \/ \E c2 \in cycles' : c2.start = cy.start /\ c2.hits = cy.hits + 1
    \/ cycles' = cycles \ {cy} /\ last'.ok /\ last'.hits = cy.hits + 1

\* Invocation cy went on to save a notification for its birthday.
GuardMiss(cy) ==
    \E c2 \in cycles' :
        c2.start = cy.start /\ c2.pc = "save" /\ c2.i = cy.i /\ c2.hits = cy.hits

\* C14: the dedup query is issued with the instant 48 hours before `now` as its
\* lower bound, and it reports an existing notification exactly when the
\* collection holds a record of the same account, birthday and day-count string
\* created at or after that bound; a record for another day count, or an older
\* one, does not keep the scan from inserting.
C14_GuardExact ==
    /\ [][\A c2 \in cycles' \ cycles : c2.pc = "query" => c2.cutoff = now - 48]_vars
    /\ [][\A cy \in cycles :
              (cy.pc = "query" /\ cy \notin cycles' /\ failures' = failures)
                  => /\ GuardMatch(cy) <=> GuardHit(cy)
                     /\ ~GuardMatch(cy) <=> GuardMiss(cy)]_vars

\* The scan goes on to save the alert of a birthday although the collection
\* holds, for the same birthday, a record of another day count created after
\* the lower bound (the day before's "1" alert when the count is 0).
C14_Witness ==
    \E cy \in cycles :
        /\ cy.pc = "save"
        /\ \E n \in store :
              /\ n.userId = cy.doc.userId
              /\ n.birthdayId = cy.doc.birthdayId
              /\ n.metadata["daysUntil"] # cy.doc.metadata["daysUntil"]
              /\ n.createdAt >= cy.cutoff

\* C15: a step of the server that is no step of a request's handler (a scan
\* step among them) leaves every stored notification in the collection exactly
\* as it is; all it may do to the collection is add one record under an _id no
\* record has.
C15_ScanOnlyAppends ==
    [][(requests' = requests /\ reading' = reading) =>
          /\ \A n \in store : n \in store'
          /\ \A n \in store' \ store : \A m \in store : m._id # n._id
          /\ Cardinality(store' \ store) <= 1]_vars

\* A notification stored on an earlier day has been marked read, and the last
\* scan, which ran to completion, inserted another next to it.
C15_Witness ==
    /\ last.ok
    /\ last.inserted > 0
    /\ \E n, m \in store :
          /\ n.isRead
          /\ n.createdAt < last.today
          /\ m.createdAt >= last.today
          /\ n.birthdayId = m.birthdayId

\* C16: a scan that meets a birthday without a date stops there, and never
\* stands at a birthday after it.  (In the code nothing throws on such a
\* record: its day count is NaN, it is passed over and the scan goes on.)
C16_DatelessStopsCycle ==
    \A cy \in cycles : \A k \in 1 .. Len(cy.work) :
        cy.work[k].birthday.date = NoDate => cy.i <= k

\* A scan has gone past a birthday without a date and stands at the dedup
\* query of a birthday after it.
C16_Witness ==
    \E cy \in cycles :
        /\ cy.pc = "query"
        /\ \E k \in 1 .. (cy.i - 1) : cy.work[k].birthday.date = NoDate

\* C17: the scheduler is created waiting; while it waits no scan has been
\* started and the due time stands; it leaves waiting only for running, only
\* once the due time has come, and in that one step the first scan is started
\* (and is still in flight) and the interval is armed for 24 hours later; once
\* running it stays running.
C17_SchedulerStateMachine ==
    /\ [](sched \in {"none", "waiting"} => (started = 0 /\ cycles = {}))
    /\ [][(sched = "none" /\ sched' # "none") => sched' = "waiting"]_vars
    /\ [][(sched = "waiting" /\ sched' = "waiting") => timerDue' = timerDue]_vars
    /\ [][(sched = "waiting" /\ sched' # "waiting") =>
              /\ sched' = "running"
              /\ now >= timerDue
              /\ started' = 1
              /\ \E c \in cycles' : c.pc = "find" /\ c.start = now
              /\ timerDue' = now + 24]_vars
    /\ [][sched = "running" => sched' = "running"]_vars

\* The scheduler is running with the interval armed for 24 hours after the
\* first scan's start, while that scan is still suspended at its first storage call.
C17_Witness ==
    /\ sched = "running"
    /\ started = 1
    /\ \E c \in cycles : c.pc = "find" /\ timerDue = c.start + 24

\* C18: at most one timer of scheduleBirthdayChecks (its timeout or its
\* interval) is armed at a time: a timer is added only by the success
\* continuation of the first mongoose.connect, which runs at most once.
C18_SingleTimer ==
    /\ [](timers <= 1)
    /\ [](timers = 0 <=> sched = "none")
    /\ [][timers' > timers => (timers = 0 /\ db = "connecting" /\ db' = "connected")]_vars

\* The interval has fired more than once and one timer is armed.
C18_Witness ==
    /\ timers = 1
    /\ sched = "running"
    /\ started >= 2

\* How far an invocation has come: twice the index of the pair it stands at,
\* plus one once the pair's dedup query is behind it.
Rank(c) == 2 * c.i + (IF c.pc = "save" THEN 1 ELSE 0)

\* C19: an invocation only moves forward through its storage calls and its
\* birthdays, a failed call ends it there and then, and an invocation the
\* timer starts begins afresh: it reads all accounts anew and evaluates every
\* birthday the collection then holds, the first account's before the second's,
\* wherever an earlier invocation stopped.
C19_NoRetry ==
    /\ [][\A cy \in cycles : \A c2 \in cycles' \ cycles :
              c2.start = cy.start => (Rank(c2) > Rank(cy) /\ failures' = failures)]_vars
    /\ [][failures' # failures => (cycles' \subseteq cycles /\ cycles' # cycles)]_vars
    /\ [][\A c2 \in cycles' \ cycles :
              (\A cy \in cycles : cy.start # c2.start)
                  => (c2.pc = "find" /\ c2.i = 0 /\ c2.work = <<>> /\ c2.start = now)]_vars
    /\ [][\A cy \in cycles : \A c2 \in cycles' \ cycles :
              (cy.pc = "find" /\ c2.start = cy.start)
                  => /\ {c2.work[k].birthday._id : k \in 1 .. Len(c2.work)} = DOMAIN birthdays
                     /\ Len(c2.work) = Cardinality(DOMAIN birthdays)
                     /\ \A k \in 1 .. Len(c2.work) : c2.work[k].birthday = birthdays[c2.work[k].birthday._id]
                     /\ \A j, k \in 1 .. Len(c2.work) :
                            (j < k /\ c2.work[j].user # c2.work[k].user)
                                => c2.work[j].user = UserOrder[1]
                     /\ \A j \in 1 .. (c2.i - 1) :
                            DaysUntil(c2.work[j].birthday.date, c2.today) \notin {0, 1, 3, 7}]_vars

\* A scan was ended by an error at its third birthday; the next day's scan
\* stands at a birthday before that one.
C19_Witness ==
    /\ ~last.ok
    /\ last.reached >= 2
    /\ \E cy \in cycles :
          /\ cy.today > last.today
          /\ cy.pc \in {"query", "save"}
          /\ cy.i < last.reached

\* C20: the pass of a scan holds every birthday the collection held when the
\* accounts were read, those of an account with a disabled birthday included;
\* and for each enabled birthday of such an account that the scan has gone past
\* with a day count of 0, 1, 3 or 7, the alert was inserted by this scan, or by
\* a scan in the 48 hours before it started.
C20_SkippingIsPerSubject ==
    /\ [][\A cy \in cycles : \A c2 \in cycles' \ cycles :
              (cy.pc = "find" /\ c2.start = cy.start)
                  => {c2.work[k].birthday._id : k \in 1 .. Len(c2.work)} = DOMAIN birthdays]_vars
    /\ [][\A cy \in cycles :
              (cy.pc = "find" /\ cy \notin cycles' /\ failures' = failures)
                  => (\/ \E c2 \in cycles' : c2.start = cy.start
                      \/ last'.size = Cardinality(DOMAIN birthdays))]_vars
    /\ [](\A cy \in cycles :
        cy.pc # "find" =>
            \A j \in 1 .. (cy.i - 1) :
                  LET w == cy.work[j]
                      d == DaysUntil(w.birthday.date, cy.today)
                  IN  ( /\ w.birthday.allowNotifications
                        /\ d \in {0, 1, 3, 7}
                        /\ \E k \in 1 .. Len(cy.work) :
                              /\ cy.work[k].user = w.user
                              /\ ~cy.work[k].birthday.allowNotifications )
                      => \E e \in emitted :
                             /\ e.userId = w.user
                             /\ e.birthdayId = w.birthday._id
                             /\ e.daysUntil = NumberToString(d)
                             /\ e.today = cy.today \/ e.at >= cy.start - 48)

\* A scan inserted the alert of b1, an enabled birthday of the account that
\* owns the disabled b2, and has gone on past both.
C20_Witness ==
    \E cy \in cycles :
        /\ cy.i >= 3
        /\ cy.work[1].birthday.allowNotifications
        /\ cy.work[2].user = cy.work[1].user
        /\ ~cy.work[2].birthday.allowNotifications
        /\ \E e \in emitted :
              /\ e.birthdayId = cy.work[1].birthday._id
              /\ e.today = cy.today
              /\ e.at >= cy.start

\* The pairs invocation cy reads in this step or has read: what User.find()
\* hands it when it is suspended there.
WorkOf(cy) ==
    IF cy.pc = "find" THEN LoopOrder(PopulatedUsers(birthdays))
    ELSE cy.work

\* Every pair among the first upto of invocation cy whose day count is 0, 1, 3
\* or 7 has, in collection st, a notification of its account, birthday and day
\* count created at instant since or later.
Covered(cy, upto, st, since) ==
    \A j \in 1 .. upto :
        LET w == WorkOf(cy)[j]
            d == DaysUntil(w.birthday.date, cy.today)
        IN  d \in {0, 1, 3, 7} =>
                \E n \in st :
                    /\ n.userId = w.user
                    /\ n.birthdayId = w.birthday._id
                    /\ n.metadata["daysUntil"] = NumberToString(d)
                    /\ n.createdAt >= since

\* This step is the one in which invocation cy runs to completion.
Completes(cy) ==
    /\ cy \notin cycles'
    /\ \A c2 \in cycles' : c2.start # cy.start
    /\ failures' = failures
    /\ last'.ok

\* C21 as claimed: when a scan runs to completion (nothing being deleted
\* meanwhile), the collection holds, for every birthday it read whose day count
\* is 0, 1, 3 or 7, a notification of that account, birthday and day count
\* created within the 48 hours before the instant the scan ends.
C21_CompleteWithin48hOfEnd ==
    [][\A cy \in cycles :
          Completes(cy) => Covered(cy, Len(WorkOf(cy)), store', now - 48)]_vars

\* C21, amended: when a scan runs to completion (nothing being deleted
\* meanwhile), the collection holds, for every birthday it read whose day count
\* is 0, 1, 3 or 7, a notification of that account, birthday and day count
\* created no earlier than 48 hours before the scan started; the same holds,
\* at every moment of the scan, of the birthdays it has gone past.
C21_CompleteSince48hBeforeStart ==
    /\ [](\A cy \in cycles : cy.pc # "find" => Covered(cy, cy.i - 1, store, cy.start - 48))
    /\ [][\A cy \in cycles :
            Completes(cy) => Covered(cy, Len(WorkOf(cy)), store', cy.start - 48)]_vars

\* A scan started at 08:00 of 12 March ran to completion: for b1, moved on to
\* 19 March, it met the guard on the "7" created 48 hours before it started,
\* which is b1's only notification, and it inserted the alert of another
\* birthday.
C21_Witness ==
    /\ last.ok
    /\ last.today = 48
    /\ last.hits > 0
    /\ last.inserted > 0
    /\ cycles = {}
    /\ birthdays["b1"].date = MonthDay(2, 19)
    /\ \E n \in store : n.birthdayId = "b1" /\ n.metadata["daysUntil"] = "7"
    /\ \A n \in store : n.birthdayId = "b1" => n.createdAt = 8

\* Local midnight of the anniversary of birthday b that is coming up.
Anniversary(b) == MakeDate(Epoch.year, birthdays[b].date.month, birthdays[b].date.date)

\* Local midnight of the calendar day d days before that anniversary.
AlertDay(b, d) == AddDate(Anniversary(b), 0 - d)

\* The inserts the scan of the day beginning at instant day made for birthday b.
AlertsOn(b, day) == {e \in emitted : e.birthdayId = b /\ e.today = day}

\* The date of birthday b has not changed since the 7th day before its
\* anniversary began: it was never edited, or was edited on the first day and
\* that 7th day is a later one.
UnchangedForSevenDays(b) ==
    \/ birthdays[b].date = YearlyBirthdays(YearlyFirstDay)[b].date
    \/ AlertDay(b, 7) >= AddDate(YearlyFirstDay, 1)

\* The timer's scan of the day beginning at instant day has run to completion,
\* as has that of every day before it from the day of the first scan on (the
\* interval is due one period after each of the scans started so far).
ScannedThrough(day) ==
    /\ failures = 0
    /\ sched = "running"
    /\ day >= Today(timerDue - 24 * started)
    /\ lastOk >= day

\* The instant at which the timer started the scan of the day beginning at
\* instant day.
ScanInstant(day) ==
    CHOOSE t \in {timerDue - 24 * j : j \in 1 .. started} : Today(t) = day

\* The day count the scan of the calendar day k days before the anniversary of
\* b computes: k, and one more when the clocks are set back between that day's
\* midnight and the anniversary's, the time between the two midnights then
\* being k days and an hour.
CountOn(b, k) ==
    IF k > 0 /\ DstOffset(AlertDay(b, k)) > DstOffset(Anniversary(b)) THEN k + 1 ELSE k

\* A notification of birthday b with the day count of the k-th day before the
\* anniversary was inserted by an earlier day's scan less than 48 hours before
\* that day's scan.
RecentSameCount(b, k) ==
    \E e \in emitted :
        /\ e.birthdayId = b
        /\ e.daysUntil = NumberToString(CountOn(b, k))
        /\ e.today < AlertDay(b, k)
        /\ e.at >= ScanInstant(AlertDay(b, k)) - 48

\* From the 7th day before the anniversary of b on, the scans inserted
\* notifications for b only on the days 7, 3, 1 and 0 days before it, at most
\* one a day, with that day's count and for the owner, and in that order.
OnlyOnAlertDays(b) ==
    /\ \A e \in emitted :
          (e.birthdayId = b /\ e.today >= AlertDay(b, 7))
              => /\ \E d \in {7, 3, 1, 0} :
                       e.today = AlertDay(b, d) /\ e.daysUntil = NumberToString(d)
                 /\ e.userId = birthdays[b].user
                 /\ Cardinality(AlertsOn(b, e.today)) = 1
    /\ \A e1, e2 \in emitted :
          (e1.birthdayId = b /\ e2.birthdayId = b /\ e1.today >= AlertDay(b, 7)
              /\ e1.today < e2.today) => e1.at < e2.at

\* From the 7th day before the anniversary of b on, the scans inserted
\* notifications for b only on days whose count is 7, 3, 1 or 0, at most one a
\* day, with that day's count and for the owner, a later day's after an
\* earlier day's and with a smaller count.
OnlyOnCountedDays(b) ==
    /\ \A e \in emitted :
          (e.birthdayId = b /\ e.today >= AlertDay(b, 7))
              => /\ \E k \in 0 .. 7 :
                       /\ e.today = AlertDay(b, k)
                       /\ CountOn(b, k) \in {7, 3, 1, 0}
                       /\ e.daysUntil = NumberToString(CountOn(b, k))
                 /\ e.userId = birthdays[b].user
                 /\ Cardinality(AlertsOn(b, e.today)) = 1
    /\ \A e1, e2 \in emitted :
          (e1.birthdayId = b /\ e2.birthdayId = b /\ e1.today >= AlertDay(b, 7)
              /\ e1.today < e2.today)
              => e1.at < e2.at /\ DaysUntil(e1.date, e1.today) > DaysUntil(e2.date, e2.today)

\* C22 as claimed: with one scan run to completion on every day, a birthday
\* with alerts enabled whose date stands unchanged from the 7th day before its
\* anniversary gets exactly four notifications for it, one on each of the days
\* 7, 3, 1 and 0 days before, in that order, and none on the other days.
C22_FourAlertsInOrder ==
    \A b \in BirthdayIds :
        (birthdays[b].allowNotifications /\ UnchangedForSevenDays(b) /\ failures = 0)
            => /\ OnlyOnAlertDays(b)
               /\ \A d \in {7, 3, 1, 0} :
                     ScannedThrough(AlertDay(b, d))
                         => Cardinality(AlertsOn(b, AlertDay(b, d))) = 1

\* C22, amended: under the same conditions the scan of the k-th calendar day
\* before the anniversary (k from 7 to 0) inserts one notification exactly
\* when that day's count is 7, 3, 1 or 0 and no notification of the same
\* birthday and count was inserted in the 48 hours before that scan (the date
\* having been moved on by a day after an alert went out).  The day's count is
\* k, so that the days are those 7, 3, 1 and 0 days before, except on the days
\* before the clocks are set back for the end of daylight saving time, when
\* that happens before the anniversary: on those the count is k + 1.  The
\* notifications come in the order of their days, with falling counts.
C22_FourAlertsUnlessRecent ==
    \A b \in BirthdayIds :
        (birthdays[b].allowNotifications /\ UnchangedForSevenDays(b) /\ failures = 0)
            => /\ OnlyOnCountedDays(b)
               /\ \A k \in 0 .. 7 :
                     ScannedThrough(AlertDay(b, k))
                         => Cardinality(AlertsOn(b, AlertDay(b, k)))
                                = (IF CountOn(b, k) \in {7, 3, 1, 0} /\ ~RecentSameCount(b, k)
                                   THEN 1 ELSE 0)

\* The scans of nine days in a row have run to completion in a zone without
\* daylight saving time: Ann's birthday of 17 March got its four
\* notifications on 10, 14, 16 and 17 March and nothing on 18 March.
C22_Witness ==
    /\ zone = "UTC"
    /\ failures = 0
    /\ birthdays["b1"].allowNotifications
    /\ birthdays["b1"].date = MonthDay(2, 17)
    /\ lastOk = 8 * 24
    /\ cycles = {}
    /\ {<<e.today, e.daysUntil>> : e \in {x \in emitted : x.birthdayId = "b1"}}
          = {<<0, "7">>, <<4 * 24, "3">>, <<6 * 24, "1">>, <<7 * 24, "0">>}

\* The scans from 28 October to 5 November 2024 have run to completion in
\* America/New_York, where the clocks are set back on 3 November: Ann's
\* birthday of 4 November got "7" on 29 October, "3" on 2 November, "0" on
\* 4 November, and no "1".
FallBackRun ==
    /\ zone = "America/New_York"
    /\ failures = 0
    /\ birthdays["b1"].allowNotifications
    /\ birthdays["b1"].date = MonthDay(10, 4)
    /\ lastOk = MakeDate(2024, 10, 5)
    /\ cycles = {}
    /\ {<<e.today, e.daysUntil>> : e \in {x \in emitted : x.birthdayId = "b1"}}
          = {<<MakeDate(2024, 9, 29), "7">>, <<MakeDate(2024, 10, 2), "3">>,
             <<MakeDate(2024, 10, 4), "0">>}

\* The database is connected at an instant whose next 08:00 the clock of the
\* model still reaches.
ConnectedInTime == db = "connected" /\ FirstTrigger(now) <= Horizon

\* C23: once the database connection is established, by the first
\* mongoose.connect or by the reconnect 5 seconds after it failed, the
\* scheduler is eventually started and a scan eventually runs (as far as the
\* clock of the model runs); and no scan runs before a connection has succeeded.
C23_SchedulerStartsOnceConnected ==
    /\ [](started > 0 => db = "connected")
    /\ ConnectedInTime ~> (sched # "none")
    /\ ConnectedInTime ~> (started > 0)

\* The first connection attempt failed and the reconnect succeeded at 06:00 of
\* the Epoch day; the clock has since passed two 08:00 instants, no timer is
\* armed and no scan was ever started.
C23_Witness ==
    /\ db = "connected"
    /\ sched = "none"
    /\ timers = 0
    /\ started = 0
    /\ now = Horizon

====
